---- MODULE Spec2Model ----
(***************************************************************************)
(* ros2_test_cases_stats.py: main, the two paginated query loops           *)
(* (query_repository_issues, query_open_assignment) and the retrying       *)
(* executor graphql_query, with the GitHub GraphQL endpoint as the         *)
(* environment.                                                            *)
(***************************************************************************)
EXTENDS Integers, Sequences, FiniteSets, TLC

(* ------------------------------ bounds -------------------------------- *)

\* requests.post is called at most MaxAttempts times in a run
MaxAttempts == 3

\* the pages served in a run hold at most MaxIssues issues in all
MaxIssues == 2

(* ------------------------- sample input universe ----------------------- *)

\* sample logins, listed in the order Python's str comparison gives them
LoginOrder == <<"alice", "bob">>

Logins == {LoginOrder[n] : n \in 1..Len(LoginOrder)}

\* sample values of pageInfo.endCursor; a string is a sequence of characters
EndCursors == {<<"Y">>, <<"Z">>}

\* the endCursor of the first page that announces another: the two sample values
\* being interchangeable, one stands for both; the later pages repeat it or not
FirstCursor == <<"Y">>

\* sample status codes other than 200
FailureCodes == {403}

\* GITHUB_TOKEN: unset, empty, or set
NoToken == "<unset>"

Tokens == {NoToken, "", "ghp_t"}

\* assignees(first: 100) { nodes { login } }: the logins of distinct users, here
\* none, one, or the two sample logins
AssigneeLists ==
    {<<>>} \cup {<<a>> : a \in Logins}
           \cup {<<LoginOrder[1], LoginOrder[2]>>}

Issues == [closed : BOOLEAN, assignees : AssigneeLists]

RECURSIVE SeqsUpTo(_, _)
SeqsUpTo(S, n) ==
    IF n = 0 THEN {<<>>}
    ELSE LET shorter == SeqsUpTo(S, n - 1)
         IN  shorter \cup {Append(s, x) : s \in {t \in shorter : Len(t) = n - 1}, x \in S}

\* pageInfo of a response page; the endCursor of a page with hasNextPage false is
\* never read (lines 166, 123), one sample value stands for it
PageInfos ==
    {pi \in [hasNextPage : BOOLEAN, endCursor : EndCursors] :
        pi.hasNextPage \/ pi.endCursor = <<"Z">>}

\* data.search of one response page holding at most n issues
SearchResults(n) == [pageInfo : PageInfos, nodes : SeqsUpTo(Issues, n)]

(* ------------------------------- state --------------------------------- *)

VARIABLES
    token,                  \* os.environ.get('GITHUB_TOKEN')
    assignments,            \* options.assignments
    raw_output,             \* options.raw_output is given
    pc,                     \* position of the single thread of control
    exit_status,            \* -1 while running, else the process exit status
    cursor,
    has_next_page,
    contributors,
    open_issues_count,
    assigned_issues_count,
    closed_issues_count,
    responses,
    issue_query,
    response,               \* the envelope graphql_query returned last
    node,                   \* index of the for loop over results['nodes']
    status_code,            \* graphql_query: response.status_code, 0 before any
    sleep_s,                \* seconds of the time.sleep in progress, else 0
    outcome,                \* how the last requests.post ended
    exception,              \* the uncaught exception, "" if none
    outstanding,            \* the queries posted and not yet answered
    posts,                  \* number of requests.post calls so far
    served,                 \* environment: <<[after, page]>>, one per page returned
    stdout,                 \* the lines printed so far
    raw_file                \* the json.dump calls made on options.raw_output

vars == <<token, assignments, raw_output, pc, exit_status, cursor, has_next_page,
          contributors, open_issues_count, assigned_issues_count,
          closed_issues_count, responses, issue_query, response, node,
          status_code, sleep_s, outcome, exception, outstanding, posts, served,
          stdout, raw_file>>

options == <<token, assignments, raw_output>>

\* the locals of the query function in progress
paginator == <<cursor, has_next_page, contributors, open_issues_count,
               assigned_issues_count, closed_issues_count, responses>>

(* ------------------------------ helpers -------------------------------- *)

\* the literal 'null' of lines 100 and 141
null == <<"n", "u", "l", "l">>

\* '"%s"' % (s)
Quoted(s) == <<"\"">> \o s \o <<"\"">>

\* ISSUE_QUERY.substitute(cursor=cursor, repo=repo, label=label): the text of the
\* template is fixed, the document is determined by the three substitutions
ISSUE_QUERY(c, repo, label) == [after |-> c, repo |-> repo, label |-> label]

Repo == "osrf/ros2_test_cases"

Label == "jazzy"

NoQuery == ISSUE_QUERY(<<>>, "", "")

\* if login not in contributors: contributors[login] = 0; contributors[login] += 1
Increment(tally, login) ==
    LET start == IF login \in DOMAIN tally THEN tally
                 ELSE tally @@ (login :> 0)
    IN  [start EXCEPT ![login] = @ + 1]

\* for assignee in assignees: ...
RECURSIVE TallyAssignees(_, _)
TallyAssignees(tally, assignees) ==
    IF assignees = <<>> THEN tally
    ELSE TallyAssignees(Increment(tally, Head(assignees)), Tail(assignees))

IssuesServed == LET RECURSIVE Sum(_)
                    Sum(s) == IF s = <<>> THEN 0
                              ELSE Len(Head(s).page.nodes) + Sum(Tail(s))
                IN  Sum(served)

\* a response body: text that response.json() parses to an envelope, or not
Envelopes(n) ==
    [data : [search : SearchResults(n)]] \cup {[errors |-> "no data"]}

Bodies(n) ==
    [parses : {TRUE}, json : Envelopes(n)] \cup {[parses |-> FALSE]}

NoResponse == [none |-> TRUE]

\* str comparison of two sample logins
StrLess(a, b) ==
    LET rank(l) == CHOOSE n \in 1..Len(LoginOrder) : LoginOrder[n] = l
    IN  rank(a) < rank(b)

\* TupleLess for a sort by (-v, k): equal counts in ascending order of login
TupleLessNameAscending(p, q) == p[1] < q[1] \/ (p[1] = q[1] /\ StrLess(q[2], p[2]))

\* tuple comparison of (v, k) pairs
TupleLess(p, q) == p[1] < q[1] \/ (p[1] = q[1] /\ StrLess(p[2], q[2]))

\* sorted(pairs), without reverse=True
RECURSIVE SortedForward(_)
SortedForward(pairs) ==
    IF pairs = {} THEN <<>>
    ELSE LET low == CHOOSE p \in pairs : \A q \in pairs : q = p \/ TupleLess(p, q)
         IN  <<low>> \o SortedForward(pairs \ {low})

\* sorted(pairs, reverse=True)
RECURSIVE SortedReverse(_)
SortedReverse(pairs) ==
    IF pairs = {} THEN <<>>
    ELSE LET top == CHOOSE p \in pairs : \A q \in pairs : q = p \/ TupleLess(q, p)
         IN  <<top>> \o SortedReverse(pairs \ {top})

\* for i, (num_tests, name) in enumerate(sorted(((v, k) for k, v in
\* contributors.items()), reverse=True)): print(f"{i + 1}. {name}: {num_tests}")
RankLines(tally) ==
    LET ranked == SortedReverse({<<tally[k], k>> : k \in DOMAIN tally})
    IN  [n \in 1..Len(ranked) |->
            [line |-> "rank", number |-> (n - 1) + 1,
             name |-> ranked[n][2], num_tests |-> ranked[n][1]]]

\* n * 100.0 / d, for d # 0: the exact quotient
Percent(n, d) == [num |-> n * 100, den |-> d]

\* json.dump(responses, options.raw_output): one JSON array, an item per element
JsonDump(list) == [json |-> "array", items |-> list]

\* time.sleep(10)
TransientSleep == 10

\* FailureSleep with the backoff of line 88 in the place of that of line 93
FailureSleepAsTransient == TransientSleep

\* time.sleep(1 * 60)
FailureSleep == 1 * 60

\* token is None, without the test for the empty string
TokenIsNone(t) == t = NoToken

\* token is None or token == ''
TokenMissing(t) == t = NoToken \/ t = ""

\* a test that retries server errors only
StatusServerError(code) == code >= 500

\* response.status_code != 200
StatusFailed(code) == code # 200

\* NextCursor without the assignment of line 168: the cursor is never moved
NextCursorStale(page_info, old) == old

\* NextCursor without the quotes of line 168
NextCursorUnquoted(page_info, old) ==
    IF page_info.hasNextPage THEN page_info.endCursor ELSE old

\* the cursor and has_next_page after a page: lines 165-171 and 122-128
NextCursor(page_info, old) ==
    IF page_info.hasNextPage THEN Quoted(page_info.endCursor) ELSE old

\* NextHasNextPage without the else branch of lines 170-171 (127-128)
NextHasNextPageStuck(page_info) == TRUE

NextHasNextPage(page_info) ==
    IF page_info.hasNextPage THEN TRUE ELSE FALSE

(* ------------------------------- actions ------------------------------- *)

Init ==
    /\ token \in Tokens
    /\ assignments \in BOOLEAN
    /\ raw_output \in BOOLEAN
    /\ pc = "main"
    /\ exit_status = -1
    /\ cursor = null
    /\ has_next_page = TRUE
    /\ contributors = <<>>
    /\ open_issues_count = 0
    /\ assigned_issues_count = 0
    /\ closed_issues_count = 0
    /\ responses = <<>>
    /\ issue_query = NoQuery
    /\ response = NoResponse
    /\ node = 0
    /\ status_code = 0
    /\ sleep_s = 0
    /\ outcome = ""
    /\ exception = ""
    /\ outstanding = <<>>
    /\ posts = 0
    /\ served = <<>>
    /\ stdout = <<>>
    /\ raw_file = <<>>

executor == <<issue_query, response, node, status_code, sleep_s, outcome,
              outstanding, posts, served>>

\* an uncaught exception ends the process with a traceback and status 1
Raise(e) ==
    /\ pc' = "crashed"
    /\ exception' = e
    /\ exit_status' = 1

\* while has_next_page: issue_query = ISSUE_QUERY.substitute(...) and the call of
\* graphql_query; else the loop is left. Evaluated on entry and after each page.
WhileTest ==
    IF has_next_page'
    THEN /\ issue_query' = ISSUE_QUERY(cursor', Repo, Label)
         /\ pc' = "attempting"
    ELSE /\ pc' = "report"
         /\ UNCHANGED issue_query

\* main, lines 214-223: the token check and the entry of the query function, up to
\* the first call of graphql_query
Main ==
    /\ pc = "main"
    /\ IF TokenMissing(token)
       THEN /\ stdout' = Append(stdout, [line |-> "GITHUB_TOKEN needs to be set"])
            /\ exit_status' = 1  \* sys.exit(1)
            /\ pc' = "exited"
            /\ UNCHANGED <<paginator, issue_query>>
       ELSE /\ cursor' = null
            /\ has_next_page' = TRUE
            /\ contributors' = <<>>
            /\ open_issues_count' = 0
            /\ IF assignments
               THEN /\ assigned_issues_count' = 0
                    /\ UNCHANGED <<closed_issues_count, responses>>
               ELSE /\ closed_issues_count' = 0
                    /\ responses' = <<>>
                    /\ UNCHANGED assigned_issues_count
            /\ WhileTest
            /\ UNCHANGED <<stdout, exit_status>>
    /\ UNCHANGED <<options, response, node, status_code, sleep_s, outcome,
                   exception, outstanding, posts, served, raw_file>>

\* Post without the time.sleep of lines 88 and 93: the retry is posted at once
PostWithoutBackoff ==
    /\ pc \in {"attempting", "sleeping"}
    /\ posts < MaxAttempts
    /\ outstanding' = Append(outstanding, issue_query)
    /\ posts' = posts + 1
    /\ pc' = "waiting"
    /\ UNCHANGED <<options, paginator, exit_status, issue_query, response, node,
                   status_code, sleep_s, outcome, exception, served, stdout,
                   raw_file>>

\* graphql_query: requests.post(...) is called and blocks
Post ==
    /\ pc = "attempting"
    /\ posts < MaxAttempts
    /\ outstanding' = Append(outstanding, issue_query)
    /\ posts' = posts + 1
    /\ pc' = "waiting"
    /\ UNCHANGED <<options, paginator, exit_status, issue_query, response, node,
                   status_code, sleep_s, outcome, exception, served, stdout,
                   raw_file>>

\* the last request.post the bound allows ends the run
LastAttempt == posts = MaxAttempts

\* TransientFault without the print of line 87
TransientFaultUnlogged ==
    /\ pc = "waiting"
    /\ ~LastAttempt
    /\ outstanding' = Tail(outstanding)
    /\ sleep_s' = TransientSleep
    /\ pc' = "sleeping"
    /\ outcome' = "transient"
    /\ UNCHANGED <<options, paginator, exit_status, issue_query, response, node,
                   status_code, exception, posts, served, stdout, raw_file>>

\* requests.post raises one of the four exceptions of line 81
TransientFault ==
    /\ pc = "waiting"
    /\ ~LastAttempt
    /\ outstanding' = Tail(outstanding)
    /\ stdout' = Append(stdout, [line |-> "Failed HTTP call", seconds |-> TransientSleep])
    /\ sleep_s' = TransientSleep
    /\ pc' = "sleeping"
    /\ outcome' = "transient"
    /\ UNCHANGED <<options, paginator, exit_status, issue_query, response, node,
                   status_code, exception, posts, served, raw_file>>

\* OtherException with a bare except at line 81: any exception is retried
OtherExceptionRetried ==
    /\ pc = "waiting"
    /\ ~LastAttempt
    /\ outstanding' = Tail(outstanding)
    /\ stdout' = Append(stdout, [line |-> "Failed HTTP call", seconds |-> TransientSleep])
    /\ sleep_s' = TransientSleep
    /\ pc' = "sleeping"
    /\ outcome' = "exception"
    /\ UNCHANGED <<options, paginator, exit_status, issue_query, response, node,
                   status_code, exception, posts, served, raw_file>>

\* requests.post raises an exception that line 81 does not name
OtherException ==
    /\ pc = "waiting"
    /\ outstanding' = Tail(outstanding)
    /\ outcome' = "exception"
    /\ Raise("ConnectionError")
    /\ UNCHANGED <<options, paginator, issue_query, response, node, status_code,
                   sleep_s, posts, served, stdout, raw_file>>

\* Wake with a retry that starts over from the first page's query
WakeRestarts ==
    /\ pc = "sleeping"
    /\ sleep_s' = 0
    /\ pc' = "attempting"
    /\ issue_query' = ISSUE_QUERY(null, Repo, Label)
    /\ UNCHANGED <<options, paginator, exit_status, response, node,
                   status_code, outcome, exception, outstanding, posts, served,
                   stdout, raw_file>>

\* time.sleep returns; continue
Wake ==
    /\ pc = "sleeping"
    /\ sleep_s' = 0
    /\ pc' = "attempting"
    /\ UNCHANGED <<options, paginator, exit_status, issue_query, response, node,
                   status_code, outcome, exception, outstanding, posts, served,
                   stdout, raw_file>>

StatusCodes == {200} \cup FailureCodes

\* requests.post returns a response that the test of line 91 rejects
HttpError ==
    /\ pc = "waiting"
    /\ ~LastAttempt
    /\ \E code \in StatusCodes :
          /\ StatusFailed(code)
          /\ status_code' = code
          /\ stdout' = Append(stdout, [line |-> "GitHub GraphQL query failed",
                                       code |-> code, seconds |-> FailureSleep])
    /\ outstanding' = Tail(outstanding)
    /\ sleep_s' = FailureSleep
    /\ pc' = "sleeping"
    /\ outcome' = "response"
    /\ UNCHANGED <<options, paginator, exit_status, issue_query, response, node,
                   exception, posts, served, raw_file>>

\* return response.json(), then lines 150-152 (108-109): the caller stores the
\* envelope and takes response['data']['search']
Deliver(body) ==
    IF ~body.parses
    THEN /\ Raise("JSONDecodeError")
         /\ UNCHANGED <<response, responses, node, served>>
    ELSE /\ response' = body.json
         /\ responses' = IF assignments THEN responses
                         ELSE Append(responses, body.json)
         /\ IF "data" \in DOMAIN body.json
            THEN /\ node' = 1
                 /\ pc' = "for"
                 /\ served' = Append(served, [after |-> Head(outstanding).after,
                                              page |-> body.json.data.search])
                 /\ UNCHANGED <<exit_status, exception>>
            ELSE /\ Raise("KeyError")
                 /\ UNCHANGED <<node, served>>

\* the body is one the bounds allow: the page fits the issues left, the last
\* attempt allowed does not announce a further page, and the first page that
\* announces another carries FirstCursor
Allowed(body) ==
    (body.parses /\ "data" \in DOMAIN body.json)
        => /\ Len(body.json.data.search.nodes) <= MaxIssues - IssuesServed
           /\ LastAttempt => ~body.json.data.search.pageInfo.hasNextPage
           /\ (served = <<>> /\ body.json.data.search.pageInfo.hasNextPage)
                 => body.json.data.search.pageInfo.endCursor = FirstCursor

\* requests.post returns a response that passes the test of line 91, its body
\* one of the given ones
HttpOkWith(bodies) ==
    /\ pc = "waiting"
    /\ \E code \in StatusCodes :
          /\ ~StatusFailed(code)
          /\ status_code' = code
    /\ \E body \in bodies :
          /\ Allowed(body)
          /\ Deliver(body)
    /\ outstanding' = Tail(outstanding)
    /\ outcome' = "response"
    /\ UNCHANGED <<options, cursor, has_next_page, contributors, open_issues_count,
                   assigned_issues_count, closed_issues_count, issue_query,
                   sleep_s, posts, stdout, raw_file>>

HttpOk == HttpOkWith(Bodies(MaxIssues - IssuesServed))

\* two of the sample issues: an open one without assignees and a closed one
\* with two
PlainIssues ==
    {[closed |-> FALSE, assignees |-> <<>>],
     [closed |-> TRUE, assignees |-> LoginOrder]}

\* the bodies whose pages hold plain issues only
PlainBodies ==
    {body \in Bodies(MaxIssues - IssuesServed) :
        (body.parses /\ "data" \in DOMAIN body.json) =>
            \A n \in 1..Len(body.json.data.search.nodes) :
                body.json.data.search.nodes[n] \in PlainIssues}

HttpOkPlain == HttpOkWith(PlainBodies)

results == response.data.search

\* ClosedOpenIssue with the assignee loop outside the if: open issues are tallied
ClosedOpenIssueTalliesOpen(issue) ==
    /\ contributors' = TallyAssignees(contributors, issue.assignees)
    /\ IF issue.closed
       THEN /\ closed_issues_count' = closed_issues_count + 1
            /\ UNCHANGED <<open_issues_count, assigned_issues_count>>
       ELSE /\ open_issues_count' = open_issues_count + 1
            /\ UNCHANGED <<closed_issues_count, assigned_issues_count>>

\* query_repository_issues, lines 154-163: one iteration of the for loop
ClosedOpenIssue(issue) ==
    IF issue.closed
    THEN /\ closed_issues_count' = closed_issues_count + 1
         /\ contributors' = TallyAssignees(contributors, issue.assignees)
         /\ UNCHANGED <<open_issues_count, assigned_issues_count>>
    ELSE /\ open_issues_count' = open_issues_count + 1
         /\ UNCHANGED <<closed_issues_count, contributors, assigned_issues_count>>

\* OpenAssignmentIssue with assigned_issues_count incremented inside the assignee
\* loop: once per assignee
OpenAssignmentIssuePerAssignee(issue) ==
    IF ~issue.closed
    THEN /\ assigned_issues_count' = assigned_issues_count + Len(issue.assignees)
         /\ contributors' = TallyAssignees(contributors, issue.assignees)
         /\ open_issues_count' = open_issues_count + 1
         /\ UNCHANGED closed_issues_count
    ELSE UNCHANGED <<assigned_issues_count, contributors, open_issues_count,
                     closed_issues_count>>

\* OpenAssignmentIssue without the if of line 113: every open issue is counted
\* as assigned
OpenAssignmentIssueAlwaysAssigned(issue) ==
    IF ~issue.closed
    THEN /\ assigned_issues_count' = assigned_issues_count + 1
         /\ contributors' = TallyAssignees(contributors, issue.assignees)
         /\ open_issues_count' = open_issues_count + 1
         /\ UNCHANGED closed_issues_count
    ELSE UNCHANGED <<assigned_issues_count, contributors, open_issues_count,
                     closed_issues_count>>

\* OpenAssignmentIssue with lines 112-119 outside the if of line 111: the
\* assignees of closed issues are counted too
OpenAssignmentIssueCountsClosed(issue) ==
    /\ assigned_issues_count' =
          IF issue.assignees # <<>> THEN assigned_issues_count + 1
          ELSE assigned_issues_count
    /\ contributors' = TallyAssignees(contributors, issue.assignees)
    /\ open_issues_count' =
          IF ~issue.closed THEN open_issues_count + 1 ELSE open_issues_count
    /\ UNCHANGED closed_issues_count

\* query_open_assignment, lines 111-120: one iteration of the for loop
OpenAssignmentIssue(issue) ==
    IF ~issue.closed
    THEN /\ assigned_issues_count' =
                IF issue.assignees # <<>> THEN assigned_issues_count + 1
                ELSE assigned_issues_count
         /\ contributors' = TallyAssignees(contributors, issue.assignees)
         /\ open_issues_count' = open_issues_count + 1
         /\ UNCHANGED closed_issues_count
    ELSE UNCHANGED <<assigned_issues_count, contributors, open_issues_count,
                     closed_issues_count>>

\* for issue in results['nodes']: the next issue of the page
ForIssue ==
    /\ pc = "for"
    /\ node <= Len(results.nodes)
    /\ IF assignments
       THEN OpenAssignmentIssue(results.nodes[node])
       ELSE ClosedOpenIssue(results.nodes[node])
    /\ node' = node + 1
    /\ UNCHANGED <<options, pc, exit_status, cursor, has_next_page, responses,
                   issue_query, response, status_code, sleep_s, outcome, exception,
                   outstanding, posts, served, stdout, raw_file>>

\* the for loop is over: page_info = results['pageInfo'], the if of line 166 and
\* the loop test
PageInfo ==
    /\ pc = "for"
    /\ node > Len(results.nodes)
    /\ cursor' = NextCursor(results.pageInfo, cursor)
    /\ has_next_page' = NextHasNextPage(results.pageInfo)
    /\ WhileTest
    /\ UNCHANGED <<options, exit_status, contributors, open_issues_count,
                   assigned_issues_count, closed_issues_count, responses,
                   response, node, status_code, sleep_s, outcome, exception,
                   outstanding, posts, served, stdout, raw_file>>

\* the numerator and the denominator of the summary line of each mode
SummaryCount == IF assignments THEN assigned_issues_count ELSE closed_issues_count

SummaryTotal == IF assignments THEN open_issues_count
                ELSE open_issues_count + closed_issues_count

\* the f-string of the summary divides before anything is printed
DivisionRaises(d) == d = 0

\* the ranked list and the summary line, lines 173-183 (130-137);
\* query_open_assignment returns to main, which returns 0
Report ==
    /\ pc = "report"
    /\ IF DivisionRaises(SummaryTotal)
       THEN /\ Raise("ZeroDivisionError")
            /\ stdout' = stdout \o RankLines(contributors)
       ELSE /\ stdout' = Append(stdout \o RankLines(contributors),
                   [line |-> "summary", count |-> SummaryCount,
                    total |-> SummaryTotal,
                    percent |-> Percent(SummaryCount, SummaryTotal)])
            /\ pc' = IF assignments THEN "done" ELSE "returned"
            /\ exit_status' = IF assignments THEN 0 ELSE exit_status
            /\ UNCHANGED exception
    /\ UNCHANGED <<options, paginator, executor, raw_file>>

\* main, lines 223-227: responses is returned, dumped if a file was given
Dump ==
    /\ pc = "returned"
    /\ raw_file' = IF raw_output THEN Append(raw_file, JsonDump(responses))
                   ELSE raw_file
    /\ pc' = "done"
    /\ exit_status' = 0
    /\ UNCHANGED <<options, paginator, executor, exception, stdout>>

Next ==
    \/ Main
    \/ Post
    \/ TransientFault
    \/ OtherException
    \/ HttpError
    \/ HttpOk
    \/ Wake
    \/ ForIssue
    \/ PageInfo
    \/ Report
    \/ Dump

Spec == Init /\ [][Next]_vars

\* The runs to completion. The control of the loops reads pageInfo only (lines
\* 165-171, 122-128), so the pages hold plain issues only here; the single thread of
\* control runs on while it can and every request is answered: a step that can
\* be taken is taken.
FairNext ==
    \/ Main
    \/ Post
    \/ TransientFault
    \/ OtherException
    \/ HttpError
    \/ HttpOkPlain
    \/ Wake
    \/ ForIssue
    \/ PageInfo
    \/ Report
    \/ Dump

FairSpec == Init /\ [][FairNext]_vars /\ WF_vars(FairNext)

(* ----------------- reference values used by the properties ------------- *)

\* the issues of all pages served so far, in the order served
RECURSIVE Flatten(_)
Flatten(history) ==
    IF history = <<>> THEN <<>>
    ELSE Head(history).page.nodes \o Flatten(Tail(history))

AllIssues == Flatten(served)

\* the issues the for loop has been through: all but the rest of the current page
Processed ==
    LET rest == IF pc = "for" THEN Len(response.data.search.nodes) - (node - 1)
                ELSE 0
    IN  SubSeq(AllIssues, 1, Len(AllIssues) - rest)

\* number of issues of the list with the given closed flag
CountIssues(issues, closed) ==
    Cardinality({n \in 1..Len(issues) : issues[n].closed = closed})

\* number of (issue, assignee) occurrences of the login among the issues with the
\* given closed flag
Occurrences(issues, closed, login) ==
    Cardinality({p \in (1..Len(issues)) \X (1..Len(LoginOrder)) :
                    /\ issues[p[1]].closed = closed
                    /\ p[2] <= Len(issues[p[1]].assignees)
                    /\ issues[p[1]].assignees[p[2]] = login})

\* the tally a hand count gives: the logins that occur, each with its occurrences
ReferenceTally(issues, closed) ==
    LET occurrences == [k \in Logins |-> Occurrences(issues, closed, k)]
    IN  [l \in {k \in Logins : occurrences[k] > 0} |-> occurrences[l]]

LinesOf(kind) == {n \in 1..Len(stdout) : stdout[n].line = kind}

LastPage == served[Len(served)].page

InExecutor == pc \in {"attempting", "waiting", "sleeping"}

LoopLeft == pc \in {"report", "returned", "done"} \/ exception = "ZeroDivisionError"

(* ------------------------------ properties ----------------------------- *)

\* C1: the n-th page returned answers a request whose cursor is null for n = 1 and
\* the quoted endCursor of page n-1 otherwise; every page but the last returned
\* has hasNextPage true, a request is only under way after such a page, and the
\* loop is left only after a page with hasNextPage false; every page returned has
\* been stored once, in order, and every issue of every page has been through
\* the for loop once.
C1_EveryPageOnceInOrder ==
    /\ \A n \in 1..Len(served) :
          /\ served[n].after =
                IF n = 1 THEN <<"n", "u", "l", "l">>
                ELSE <<"\"">> \o served[n - 1].page.pageInfo.endCursor \o <<"\"">>
          /\ n < Len(served) => served[n].page.pageInfo.hasNextPage
    /\ (InExecutor /\ served # <<>>) => LastPage.pageInfo.hasNextPage
    /\ LoopLeft => served # <<>> /\ ~LastPage.pageInfo.hasNextPage
    /\ (~assignments /\ exception # "KeyError")
          => responses = [n \in 1..Len(served) |-> [data |-> [search |-> served[n].page]]]
    /\ LET done == Processed
       IN  IF assignments
           THEN open_issues_count = CountIssues(done, FALSE)
           ELSE open_issues_count + closed_issues_count = Len(done)

\* C1 witness: a run of three pages holding two issues has completed
C1_Witness ==
    /\ pc = "done"
    /\ Len(served) = 3
    /\ Len(AllIssues) = 2

\* C2: every request posted before any page was returned carries the unquoted
\* literal null, which does not start with a double quote; every request posted
\* after a page was returned, retries included, carries that page's endCursor
\* between two double quotes, which is not the literal null.
C2_CursorLiteral ==
    \A q \in (IF InExecutor THEN {issue_query} ELSE {})
             \cup {outstanding[n] : n \in 1..Len(outstanding)} :
        IF served = <<>>
        THEN /\ q.after = <<"n", "u", "l", "l">>
             /\ Head(q.after) # "\""
        ELSE /\ Len(q.after) = Len(LastPage.pageInfo.endCursor) + 2
             /\ Head(q.after) = "\""
             /\ q.after[Len(q.after)] = "\""
             /\ SubSeq(q.after, 2, Len(q.after) - 1) = LastPage.pageInfo.endCursor
             /\ q.after # <<"n", "u", "l", "l">>

\* C2 witness: the request for the second page is being retried
C2_Witness ==
    /\ pc = "waiting"
    /\ Len(served) = 1
    /\ outcome = "transient"

\* C3: while no exception is uncaught, every request posted has either returned a
\* page, or is still outstanding, or failed and left exactly one retry line on
\* stdout; every page returned is stored once; and the counters and the tally
\* are those a hand count over the issues gone through gives, whatever faults
\* the run has met.
C3_FaultThenSuccess ==
    exception = "" =>
        LET retries == Cardinality(LinesOf("Failed HTTP call"))
                       + Cardinality(LinesOf("GitHub GraphQL query failed"))
            done == Processed
        IN  /\ posts = Len(served) + Len(outstanding) + retries
            /\ ~assignments => Len(responses) = Len(served)
            /\ open_issues_count = CountIssues(done, FALSE)
            /\ contributors = ReferenceTally(done, ~assignments)
            /\ ~assignments => closed_issues_count = CountIssues(done, TRUE)

\* C3 witness: a run whose one page of two issues came after one transient fault
\* has completed with one retry line
C3_Witness ==
    /\ pc = "done"
    /\ posts = 2
    /\ Len(served) = 1
    /\ Len(AllIssues) = 2
    /\ Cardinality(LinesOf("Failed HTTP call")) = 1
    /\ contributors # <<>>

\* C4: a run that has left the loop with a zero denominator for its summary line
\* does not end in an uncaught exception.
C4_ZeroIssuesCompletes ==
    (~has_next_page /\ SummaryTotal = 0) => pc # "crashed"

\* C5: in closed/open mode the counters and the tally are those of a hand count
\* over the issues gone through: closed issues, open issues, and per login the
\* (closed issue, assignee) occurrences; at the end these are all issues served.
C5_ClosedOpenReference ==
    ~assignments =>
        LET done == Processed
        IN  /\ closed_issues_count = CountIssues(done, TRUE)
            /\ open_issues_count = CountIssues(done, FALSE)
            /\ contributors = ReferenceTally(done, TRUE)
            /\ pc \in {"report", "returned", "done"} => done = AllIssues

\* C5 witness: a closed/open run over two pages has completed, with a closed and
\* an open issue that each have an assignee
C5_Witness ==
    /\ pc = "done"
    /\ ~assignments
    /\ Len(served) = 2
    /\ \E m, n \in 1..Len(AllIssues) :
          /\ AllIssues[m].closed /\ Len(AllIssues[m].assignees) = 2
          /\ ~AllIssues[n].closed /\ AllIssues[n].assignees # <<>>

\* C6: in open-assignment mode closed issues change nothing; open_issues_count is
\* the number of open issues gone through, assigned_issues_count the number of
\* those with at least one assignee, and the tally holds per login the (open
\* issue, assignee) occurrences; at the end these are all issues served.
C6_OpenAssignmentReference ==
    assignments =>
        LET done == Processed
        IN  /\ open_issues_count = CountIssues(done, FALSE)
            /\ assigned_issues_count =
                  Cardinality({n \in 1..Len(done) :
                                  ~done[n].closed /\ done[n].assignees # <<>>})
            /\ contributors = ReferenceTally(done, FALSE)
            /\ closed_issues_count = 0
            /\ pc \in {"report", "done"} => done = AllIssues

\* C6 witness: an open-assignment run over two pages has completed, with an open
\* issue that has two assignees and a closed issue that has one
C6_Witness ==
    /\ pc = "done"
    /\ assignments
    /\ Len(served) = 2
    /\ \E m, n \in 1..Len(AllIssues) :
          /\ ~AllIssues[m].closed /\ Len(AllIssues[m].assignees) = 2
          /\ AllIssues[n].closed /\ AllIssues[n].assignees # <<>>

\* the ranked list has been printed
ReportPrinted == pc \in {"returned", "done"} \/ exception = "ZeroDivisionError"

\* C7: of two printed entries the one with the strictly greater count is printed
\* first; once the list is printed every login of the tally has exactly one
\* entry, with its count, and there are no other entries; the entries are
\* numbered from 1 in the order printed.
C7_RankedDescending ==
    LET R == LinesOf("rank")
    IN  /\ \A m, n \in R : stdout[m].num_tests > stdout[n].num_tests => m < n
        /\ \A n \in R : stdout[n].number = Cardinality({m \in R : m <= n})
        /\ IF ReportPrinted
           THEN /\ \A l \in DOMAIN contributors :
                      \E n \in R : /\ stdout[n].name = l
                                   /\ stdout[n].num_tests = contributors[l]
                                   /\ \A m \in R : stdout[m].name = l => m = n
                /\ Cardinality(R) = Cardinality(DOMAIN contributors)
           ELSE R = {}

\* C7 witness: a run has completed after printing two entries with different counts
C7_Witness ==
    /\ pc = "done"
    /\ \E m, n \in LinesOf("rank") : stdout[m].num_tests > stdout[n].num_tests

\* C8: with GITHUB_TOKEN unset or empty, in either mode, no request is ever
\* posted, the run never enters a query function, and once main has run the
\* process has exited with status 1 after printing the diagnostic and nothing else.
C8_NoTokenNoRequest ==
    (token = NoToken \/ token = "") =>
        /\ posts = 0
        /\ outstanding = <<>>
        /\ served = <<>>
        /\ pc \in {"main", "exited"}
        /\ pc = "main" => stdout = <<>> /\ exit_status = -1
        /\ pc = "exited" =>
              /\ exit_status = 1
              /\ stdout = <<[line |-> "GITHUB_TOKEN needs to be set"]>>

\* C8 witness: main has exited with an empty token, open-assignment mode asked
C8_Witness ==
    /\ pc = "exited"
    /\ token = ""
    /\ assignments

\* C9: a step that ends an attempt hands a response to the paginator (the for
\* loop starts, or response, responses or the pages seen change) only if the
\* attempt ended in a response of status 200; and after an attempt that ended
\* in a recognized fault or in a response of another status the executor
\* sleeps, the paginator's locals and response are untouched, and the sleep is
\* followed by another attempt of the same query.
C9_ReturnsOnly200 ==
    [][/\ pc = "waiting" =>
            /\ (pc' = "for" \/ response' # response \/ responses' # responses
                    \/ served' # served)
                  => (outcome' = "response" /\ status_code' = 200)
            /\ (outcome' = "transient"
                    \/ (outcome' = "response" /\ status_code' # 200))
                  => /\ pc' = "sleeping"
                     /\ UNCHANGED <<paginator, response, node, served, issue_query>>
       /\ pc = "sleeping" =>
            /\ pc' = "attempting"
            /\ UNCHANGED <<paginator, response, node, served, issue_query>>
       /\ pc = "attempting" =>
            /\ pc' = "waiting"
            /\ outstanding' = <<issue_query>>
            /\ UNCHANGED <<paginator, response, node, served, issue_query>>
      ]_vars

\* C9 witness: a page has been handed to the paginator after a recognized fault
\* and a response of another status
C9_Witness ==
    /\ pc = "for"
    /\ status_code = 200
    /\ LinesOf("Failed HTTP call") # {}
    /\ LinesOf("GitHub GraphQL query failed") # {}

\* C10: in closed/open mode with a raw-output file given, once the last page has
\* been processed and the process has ended, the file has been written exactly
\* once, after the summary line, with one entry per page fetched, in fetch order.
C10_RawFileWrittenOnce ==
    (~assignments /\ raw_output /\ ~has_next_page /\ exit_status # -1) =>
        /\ Len(raw_file) = 1
        /\ raw_file[1] = [json |-> "array",
                          items |-> [n \in 1..Len(served) |->
                                        [data |-> [search |-> served[n].page]]]]
        /\ LinesOf("summary") # {}

\* what holds of the raw-output file in every run: it is written at most once,
\* only by a closed/open run given a file that has printed its summary line and
\* is done, with one entry per page fetched in fetch order; and such a run that
\* is done has written it.
C10_WhenCompleted ==
    /\ Len(raw_file) <= 1
    /\ raw_file # <<>> =>
          /\ pc = "done" /\ ~assignments /\ raw_output
          /\ LinesOf("summary") # {}
          /\ raw_file[1] = [json |-> "array",
                            items |-> [n \in 1..Len(served) |->
                                          [data |-> [search |-> served[n].page]]]]
    /\ (pc = "done" /\ ~assignments /\ raw_output) => Len(raw_file) = 1

\* C11: an attempt that ends in an exception line 81 does not name, or in a 200
\* response that hands no page to the paginator (its body does not parse, or
\* holds no data), ends the process at once with status 1: no retry line is
\* printed and no further request posted, neither a ranked list nor a summary
\* line has been printed, nothing has been written to the raw-output file,
\* and the process takes no further step, however many pages it had fetched.
C11_FatalNeverRetried ==
    [][/\ (pc = "waiting"
            /\ (outcome' = "exception"
                   \/ (outcome' = "response" /\ status_code' = 200
                         /\ served' = served)))
          => /\ pc' = "crashed"
             /\ exit_status' = 1
             /\ exception' \in {"ConnectionError", "JSONDecodeError", "KeyError"}
             /\ posts' = posts
             /\ stdout' = stdout
             /\ LinesOf("rank") = {} /\ LinesOf("summary") = {}
             /\ raw_file' = <<>>
       /\ pc = "crashed" => FALSE
      ]_vars

\* C11 witness: a closed/open run given a raw-output file has ended in an
\* unparseable body after two pages that held a closed issue with an assignee
C11_Witness ==
    /\ pc = "crashed"
    /\ exception = "JSONDecodeError"
    /\ ~assignments /\ raw_output
    /\ Len(served) = 2
    /\ contributors # <<>>

\* C12: the cursor of a request differs from the cursor of every earlier request
\* of the run that was for another page: the requests that returned a page
\* carry pairwise different cursors, and a request in flight carries a cursor
\* that none of them carried.
C12_CursorNeverReused ==
    /\ \A m, n \in 1..Len(served) : m # n => served[m].after # served[n].after
    /\ \A k \in 1..Len(outstanding) :
          \A n \in 1..Len(served) : outstanding[k].after # served[n].after

\* C13: at most one request is outstanding; a request is posted only when none
\* is outstanding and no backoff sleep is in progress, and it is the query the
\* paginator built last; a step that ends the wait for a response leaves no
\* request outstanding; and while a backoff sleep lasts none is outstanding.
C13_OneOutstandingRequest ==
    [][/\ Len(outstanding') <= 1
       /\ posts' # posts =>
             /\ pc = "attempting"
             /\ outstanding = <<>>
             /\ sleep_s = 0
             /\ outstanding' = <<issue_query>>
       /\ (pc = "waiting" /\ pc' # "waiting") => outstanding' = <<>>
       /\ (sleep_s' > 0 \/ pc' = "sleeping") =>
             /\ outstanding' = <<>>
             /\ sleep_s' > 0 /\ pc' = "sleeping"
      ]_vars

\* C13 witness: the request for the second page is outstanding again, after its
\* previous attempt ended in another status and the backoff has elapsed
C13_Witness ==
    /\ pc = "waiting"
    /\ Len(outstanding) = 1
    /\ sleep_s = 0
    /\ Len(served) = 1
    /\ outcome = "response" /\ status_code # 200

\* C14: a request is posted only at the start or after a page with hasNextPage
\* true; the step that ends the for loop over a page goes on to build the next
\* request if that page has hasNextPage true and leaves the loop for the report
\* otherwise; a request built is posted; and a run with the token set, whose
\* requests are answered, reaches the report after a page with hasNextPage
\* false, unless an attempt ends the process, and then ends.
C14_LoopUntilLastPage ==
    /\ [][/\ posts' # posts => (served = <<>> \/ LastPage.pageInfo.hasNextPage)
          /\ (pc = "for" /\ pc' # "for") =>
                IF LastPage.pageInfo.hasNextPage
                THEN pc' = "attempting" /\ has_next_page'
                ELSE pc' = "report" /\ ~has_next_page'
         ]_vars
    /\ [](pc = "attempting" => <>(pc = "waiting"))
    /\ [](pc = "attempting" =>
            <>(\/ pc = "report" /\ ~LastPage.pageInfo.hasNextPage
               \/ exception \in {"ConnectionError", "JSONDecodeError", "KeyError"}))
    /\ [](pc = "report" => <>(pc \in {"done", "crashed"}))

\* C14 witness: the run has reached the report after three pages
C14_Witness ==
    /\ pc = "report"
    /\ Len(served) = 3
    /\ posts = 3

\* C15: whatever the number of failed attempts before it, an attempt that ends
\* in a recognized fault prints its line and is followed by a sleep of 10
\* seconds, one that ends in a status other than 200 prints the status and is
\* followed by a sleep of 60 seconds, and neither raises nor ends the process;
\* the sleep over, the same query is attempted and posted again; and an attempt
\* that hands a page over had status 200 and returns that page to the paginator.
C15_RetriesWithoutLimit ==
    [][/\ (pc = "waiting" /\ outcome' = "transient") =>
             /\ pc' = "sleeping" /\ sleep_s' = 10
             /\ stdout' = Append(stdout, [line |-> "Failed HTTP call", seconds |-> 10])
             /\ exception' = "" /\ exit_status' = -1
       /\ (pc = "waiting" /\ outcome' = "response" /\ status_code' # 200) =>
             /\ pc' = "sleeping" /\ sleep_s' = 60
             /\ stdout' = Append(stdout, [line |-> "GitHub GraphQL query failed",
                                          code |-> status_code', seconds |-> 60])
             /\ exception' = "" /\ exit_status' = -1
       /\ pc = "sleeping" =>
             /\ pc' = "attempting" /\ sleep_s' = 0
             /\ issue_query' = issue_query
             /\ exception' = "" /\ exit_status' = -1
       /\ pc = "attempting" =>
             /\ pc' = "waiting" /\ posts' = posts + 1
             /\ outstanding' = <<issue_query>>
       /\ (pc = "waiting" /\ served' # served) =>
             /\ pc' = "for" /\ status_code' = 200
             /\ response' = [data |-> [search |-> served'[Len(served')].page]]
      ]_vars

\* C15 witness: the first request is about to be posted for the third time, after
\* a recognized fault and a response of another status
C15_Witness ==
    /\ pc = "attempting"
    /\ posts = 2
    /\ served = <<>>
    /\ LinesOf("Failed HTTP call") # {}
    /\ LinesOf("GitHub GraphQL query failed") # {}

\* C16: an iteration of the for loop over an issue without assignees leaves the
\* tally as it was, no key added and no count changed, in both modes and
\* whether the issue is open or closed; of the counters only the one of the
\* issue's state moves, by one: closed_issues_count or open_issues_count in
\* closed/open mode, open_issues_count for an open issue in open-assignment
\* mode and none for a closed one.
C16_NoAssigneesNoTally ==
    [][(pc = "for" /\ node' = node + 1
          /\ response.data.search.nodes[node].assignees = <<>>)
         => /\ contributors' = contributors
            /\ assigned_issues_count' = assigned_issues_count
            /\ closed_issues_count' =
                  IF ~assignments /\ response.data.search.nodes[node].closed
                  THEN closed_issues_count + 1 ELSE closed_issues_count
            /\ open_issues_count' =
                  IF ~response.data.search.nodes[node].closed
                  THEN open_issues_count + 1 ELSE open_issues_count
      ]_vars

\* C16 witness: the for loop has just been through an issue without assignees,
\* the tally holding a login from an issue before it
C16_Witness ==
    /\ pc = "for"
    /\ node > 1
    /\ response.data.search.nodes[node - 1].assignees = <<>>
    /\ contributors # <<>>

\* C17: a step of graphql_query that does not return (the post, an attempt that
\* ends in a recognized fault or in a status other than 200, the end of the
\* sleep) leaves the cursor, has_next_page, the tally, the three counters and
\* responses as they were and the query document as the paginator built it;
\* and every post, the first for a page or a retry, sends that document.
C17_RetryLeavesPaginator ==
    [][/\ (pc \in {"attempting", "waiting", "sleeping"}
            /\ pc' \in {"attempting", "waiting", "sleeping"})
          => /\ cursor' = cursor
             /\ has_next_page' = has_next_page
             /\ contributors' = contributors
             /\ open_issues_count' = open_issues_count
             /\ assigned_issues_count' = assigned_issues_count
             /\ closed_issues_count' = closed_issues_count
             /\ responses' = responses
             /\ issue_query' = issue_query
       /\ posts' # posts =>
             /\ outstanding' = <<issue_query>>
             /\ issue_query.after = cursor
      ]_vars

\* C17 witness: the request for the second page is about to be posted again
\* after a recognized fault, the tally holding a login from the first page
C17_Witness ==
    /\ pc = "attempting"
    /\ posts = 2
    /\ Len(served) = 1
    /\ outcome = "transient"
    /\ contributors # <<>>

\* C18: in open-assignment mode, at every point between two iterations of the
\* for loop and in the state the summary line is printed from,
\* 0 <= assigned_issues_count <= open_issues_count and every login of the
\* tally has a count of at least 1.
C18_AssignedWithinOpen ==
    assignments =>
        /\ 0 <= assigned_issues_count
        /\ assigned_issues_count <= open_issues_count
        /\ \A l \in DOMAIN contributors : contributors[l] >= 1

\* C18 witness: an open-assignment run is about to print its report, one of its
\* two open issues having assignees
C18_Witness ==
    /\ assignments
    /\ pc = "report"
    /\ open_issues_count = 2
    /\ assigned_issues_count = 1
    /\ contributors # <<>>

\* C19: the list printed is determined by the tally alone: it has one entry per
\* login of the tally, with its count, numbered from 1 in the order printed,
\* and of two entries the one printed first has the greater count or, the
\* counts being equal, the login that is the greater string; so whatever the
\* order in which the issues came, the same tally gives the same list.
C19_OrderFromTallyAlone ==
    ReportPrinted =>
        LET R == LinesOf("rank")
            first == IF R = {} THEN 1 ELSE CHOOSE n \in R : \A m \in R : n <= m
            place(l) == CHOOSE k \in 1..Len(LoginOrder) : LoginOrder[k] = l
        IN  /\ R = first..(first + Cardinality(DOMAIN contributors) - 1)
            /\ \A n \in R :
                  /\ stdout[n].number = n - first + 1
                  /\ stdout[n].name \in DOMAIN contributors
                  /\ stdout[n].num_tests = contributors[stdout[n].name]
            /\ \A m, n \in R :
                  m < n => \/ stdout[m].num_tests > stdout[n].num_tests
                           \/ /\ stdout[m].num_tests = stdout[n].num_tests
                              /\ place(stdout[m].name) > place(stdout[n].name)

\* C19 witness: a run has printed two entries of equal count, the login tallied
\* first being printed second
C19_Witness ==
    /\ pc = "done"
    /\ Len(AllIssues) = 2
    /\ AllIssues[1].assignees = <<"alice">>
    /\ AllIssues[2].assignees = <<"bob">>
    /\ DOMAIN contributors = {"alice", "bob"}
    /\ \E m, n \in LinesOf("rank") :
          /\ m < n
          /\ stdout[m].name = "bob" /\ stdout[n].name = "alice"
          /\ stdout[m].num_tests = stdout[n].num_tests

====
